---- MODULE Spec2Model ----
(***************************************************************************)
(* Thread / process execution core of NachOS (code/threads/thread.cc).     *)
(*                                                                         *)
(* A thread object is identified by its pid.  One action of the model is   *)
(* what the running thread does from one point at which the timer can      *)
(* preempt it to the next: a call of a NachOSThread operation, including   *)
(* the context switch it performs and the part of the resumed thread's     *)
(* pending call that runs before interrupts are enabled again (post-switch *)
(* cleanup, return from YieldCPU / PutThreadToSleep, ThreadRoot up to      *)
(* InterruptEnable, JoinThreadWithChild up to SetLevel(oldLevel)).  What   *)
(* the resumed thread does after that point is a step of its own.          *)
(*                                                                         *)
(* Undefined behaviour of the C++ code (use of a deleted thread object,    *)
(* an out-of-range table index, a read of a never-written exit code) is a  *)
(* nondeterministic choice between a fault of the whole simulator and the  *)
(* access going through on the stale / neighbouring memory.                *)
(***************************************************************************)
EXTENDS Integers, Sequences, FiniteSets, TLC

\* ---------------------------------------------------------------- bounds
MaxThreads == 2      \* at most this many thread objects are ever constructed
MAXCHILDCOUNT == 2   \* capacity of the per-thread child tables, scaled down
                     \* so that the pids reach past it (childexitstatus[pid])
MaxReady == MaxThreads   \* the ready list is explored up to this length

\* ------------------------------------------------------------- constants
NULL == 0            \* the null thread pointer (pids start at 1)

Codes == {0, 1}      \* the exit codes tried
Keys  == {1}         \* the wait keys tried
Slots == 0..(MAXCHILDCOUNT - 1)

VARIABLES
    currentThread,        \* system.h: the thread holding the CPU
    threadToBeDestroyed,  \* system.h: finished thread awaiting delete, or NULL
    listOfReadyThreads,   \* ProcessScheduler: FIFO of ready threads
    sleepingThreads,      \* ProcessScheduler: sequence of <<thread, key>>
    availpid,             \* static int availpid
    level,                \* interrupt level: "IntOn" / "IntOff"
    status,               \* NachOSThread::status
    ppid,                 \* NachOSThread::ppid
    parentthread,         \* NachOSThread::parentthread (NULL for the first)
    childCount,           \* NachOSThread::childCount
    child_pids,           \* NachOSThread::child_pids[0..childCount-1]
    childexitstatus,      \* NachOSThread::childexitstatus[MAXCHILDCOUNT]
    childexitcode,        \* NachOSThread::childexitcode[]: written slots only
    waitchildindex,       \* NachOSThread::waitchildindex
    pc,                   \* where each thread stands: [at, back, old], "at"
                          \* the call it is suspended in or the point it
                          \* runs at, "back" the point a YieldCPU returns
                          \* to, "old" the oldLevel saved by the call
    joinIndex,            \* the local "index" of a suspended JoinThreadWithChild
    joinReturn,           \* << thread, value >> if a JoinThreadWithChild returned in the last step
    deleted,              \* thread objects whose destructor has run
    finished,             \* threads that have executed FinishThread's body
    cpu,                  \* "run" / "idle" / "halted" / "aborted"
    fault,                \* why the simulator aborted ("none" otherwise)
    queueLevel,           \* interrupt level in force at the ready-queue calls
                          \* of the last step ("none" if it made none)
    lastOp                \* the operation the last step performed

vars == << currentThread, threadToBeDestroyed, listOfReadyThreads,
           sleepingThreads, availpid, level, status, ppid, parentthread,
           childCount, child_pids, childexitstatus, childexitcode,
           waitchildindex, pc, joinIndex, joinReturn, deleted, finished,
           cpu, fault, queueLevel, lastOp >>

Threads == 1..(availpid - 1)

\* ------------------------------------------------------ pure helpers

\* Sequence membership and multiplicity
InSeq(s, x) == \E i \in 1..Len(s) : s[i] = x

Count(s, x) == Cardinality({i \in 1..Len(s) : s[i] = x})

\* NachOSThread::SearchChildpid: first slot below childCount holding a, else -1
SearchChildpid(pids, cnt, a) ==
    IF \E i \in 0..(cnt - 1) : pids[i + 1] = a
    THEN CHOOSE i \in 0..(cnt - 1) :
            /\ pids[i + 1] = a
            /\ \A j \in 0..(i - 1) : pids[j + 1] # a
    ELSE -1

\* ProcessScheduler::MoveThreadToReadyQueue on the pair (status, ready list)
MoveThreadToReadyQueue(s, t) ==
    [st |-> [s.st EXCEPT ![t] = "READY"], rl |-> Append(s.rl, t)]

\* ProcessScheduler::SelectNextReadyThread: the head of the list, or NULL
SelectNextReadyThread(rl) == IF rl = << >> THEN NULL ELSE Head(rl)

\* the list SelectNextReadyThread leaves behind
RemoveSelected(rl) == IF rl = << >> THEN rl ELSE Tail(rl)

\* an access through a pointer to a deleted object either faults (FALSE)
\* or goes through on the stale memory (TRUE)
AccessOutcomes(t) == IF t \in deleted THEN {TRUE, FALSE} ELSE {TRUE}

\* a slot of childexitcode that was never written holds whatever the
\* allocator left there
ReadCode(t, i) ==
    IF i \in DOMAIN childexitcode[t] THEN {childexitcode[t][i]} ELSE Codes

\* childexitstatus[pid] as FinishThread reads it: the flag of the slot
\* numbered like the thread's own pid; past the table, neighbouring memory
OwnSlotExited(t) ==
    IF t \in Slots THEN {childexitstatus[t][t]} ELSE BOOLEAN

\* the bound on the explored length of the ready list
Fits(q) == Len(q.rl) <= MaxReady

\* (mutant) the ready-queue calls run at the level the caller had
SetLevelIntOff_Missing(old) == old

\* IntStatus oldLevel = interrupt->SetLevel(IntOff): the level in force
\* from there to the matching SetLevel(oldLevel)
SetLevelIntOff(old) == "IntOff"

\* (mutant) the constructor hands out availpid without advancing it
NextPid_Same(a) == a

\* pid = availpid; availpid++;
NextPid(a) == a + 1

\* a thread's position
Pos(a, b, l) == [at |-> a, back |-> b, old |-> l]

\* running code of its own, outside the operations of this core
User == Pos("user", "user", "IntOn")

tables == << childCount, child_pids, childexitstatus, childexitcode >>
ids    == << availpid, ppid, parentthread >>

\* --------------------------------------------------------------- Init
\* system start-up: the main thread (pid 1, no parent) is constructed and
\* made the running thread; nothing is ready, asleep or pending destruction
Init ==
    /\ currentThread = 1
    /\ threadToBeDestroyed = NULL
    /\ listOfReadyThreads = << >>
    /\ sleepingThreads = << >>
    /\ availpid = 2
    /\ level = "IntOn"
    /\ status = (1 :> "RUNNING")
    /\ ppid = (1 :> 0)
    /\ parentthread = (1 :> NULL)
    /\ childCount = (1 :> 0)
    /\ child_pids = (1 :> << >>)
    /\ childexitstatus = (1 :> [i \in Slots |-> FALSE])
    /\ childexitcode = (1 :> << >>)
    /\ waitchildindex = (1 :> -1)
    /\ pc = (1 :> User)
    /\ joinIndex = (1 :> -1)
    /\ joinReturn = << >>
    /\ deleted = {}
    /\ finished = {}
    /\ cpu = "run"
    /\ fault = "none"
    /\ queueLevel = "none"
    /\ lastOp = "Init"

\* ------------------------------------------------- switching threads

\* the simulator stops (Halt, a failed ASSERT, a fault) or idles, with the
\* scheduling state as the stopping statement found it
Stop(how, why, cur, st, rl, tbd, del, pcs, lvl) ==
    /\ cpu' = how
    /\ fault' = why
    /\ currentThread' = cur
    /\ status' = st
    /\ listOfReadyThreads' = rl
    /\ threadToBeDestroyed' = tbd
    /\ deleted' = del
    /\ pc' = pcs
    /\ level' = lvl
    /\ joinReturn' = << >>

\* what the resumed thread does when SWITCH returns into it, up to the
\* point where it has set the interrupt level again: YieldCPU and
\* JoinThreadWithChild do SetLevel(oldLevel), ThreadRoot of a new thread
\* calls InterruptEnable, PutThreadToSleep itself restores nothing (its
\* caller does); the sleep system call restores its level like a join
Resume(next, pcs) ==
    LET p == pcs[next] IN
    /\ cpu' = "run"
    /\ fault' = "none"
    /\ joinReturn' = << >>
    /\ level' = CASE p.at \in {"yield", "join", "park"} -> p.old
                  [] p.at = "sleep" -> "IntOff"
                  [] OTHER -> "IntOn"
    /\ pc' = [pcs EXCEPT ![next] =
                CASE p.at = "yield" -> Pos(p.back, "user", "IntOn")
                  [] p.at = "join" -> Pos("joinret", "user", "IntOn")
                  [] p.at = "new" -> Pos("start", "user", "IntOn")
                  [] OTHER -> User]

\* if(threadToBeDestroyed != NULL): the test of the post-switch cleanup
\* (context(), and the same test after SWITCH in ScheduleThread)
PendingDestruction(tbd) == tbd # NULL

\* ~NachOSThread: ASSERT(this != currentThread)
DestructorAssertHolds(this, cur) == this # cur

\* ProcessScheduler::ScheduleThread(next) followed by what runs in next
\* right after SWITCH: for a thread that was switched out, the deferred
\* delete, then the return into its call; a new thread starts in
\* ThreadRoot instead, which does no cleanup.
\* A thread suspended in FinishThread has no code of this core to return
\* to ("not reached"): the model stops where it would return.
ScheduleThread(next, st, rl, tbd, pcs) ==
    LET st1 == [st EXCEPT ![next] = "RUNNING"]
        fresh == pcs[next].at \in {"new", "newother"}
        destroy == ~fresh /\ PendingDestruction(tbd)
        del1 == IF destroy THEN deleted \cup {tbd} ELSE deleted
    IN \E alive \in AccessOutcomes(next),
          once \in (IF destroy THEN AccessOutcomes(tbd) ELSE {TRUE}) :
         IF ~alive
         THEN Stop("aborted", "use_after_free",
                   next, st1, rl, tbd, deleted, pcs, "IntOff")
         ELSE IF destroy /\ ~DestructorAssertHolds(tbd, next)
         THEN Stop("aborted", "ASSERT_this_not_currentThread",
                   next, st1, rl, tbd, deleted, pcs, "IntOff")
         ELSE IF ~once
         THEN Stop("aborted", "double_delete",
                   next, st1, rl, tbd, deleted, pcs, "IntOff")
         ELSE IF pcs[next].at = "finish"
         THEN Stop("aborted", "returned_from_FinishThread",
                   next, st1, rl, NULL, del1, pcs, "IntOff")
         ELSE /\ currentThread' = next
              /\ status' = st1
              /\ listOfReadyThreads' = rl
              /\ threadToBeDestroyed' = IF fresh THEN tbd ELSE NULL
              /\ deleted' = del1
              /\ Resume(next, pcs)

\* (mutant) PutThreadToSleep without "status = BLOCKED"
SleepBody_KeepsRunning(this, st, rl, tbd, pcs) ==
    LET nextThread == SelectNextReadyThread(rl)
    IN IF nextThread = NULL
       THEN Stop("idle", "none", this, st, rl, tbd, deleted, pcs, "IntOff")
       ELSE ScheduleThread(nextThread, st, RemoveSelected(rl), tbd, pcs)

\* (mutant) PutThreadToSleep dispatches the tail of the ready list
SleepBody_TakesLast(this, st, rl, tbd, pcs) ==
    LET st1 == [st EXCEPT ![this] = "BLOCKED"]
    IN IF rl = << >>
       THEN Stop("idle", "none", this, st1, rl, tbd, deleted, pcs, "IntOff")
       ELSE ScheduleThread(rl[Len(rl)], st1, SubSeq(rl, 1, Len(rl) - 1),
                           tbd, pcs)

\* the body of NachOSThread::PutThreadToSleep once its assertions passed:
\* block, then switch to the head of the ready list, or idle while there
\* is none
SleepBody(this, st, rl, tbd, pcs) ==
    LET st1 == [st EXCEPT ![this] = "BLOCKED"]
        nextThread == SelectNextReadyThread(rl)
    IN IF nextThread = NULL
       THEN Stop("idle", "none", this, st1, rl, tbd, deleted, pcs, "IntOff")
       ELSE ScheduleThread(nextThread, st1, RemoveSelected(rl), tbd, pcs)

\* interrupt->Halt(): the whole simulator exits, nothing else changes
Halt(tbd, st, rl, lvl) ==
    Stop("halted", "none", currentThread, st, rl, tbd, deleted, pc, lvl)

\* a failed ASSERT: the simulator aborts where it stands
AssertFails(why, lvl) ==
    Stop("aborted", why, currentThread, status, listOfReadyThreads,
         threadToBeDestroyed, deleted, pc, lvl)

\* ------------------------------------------------------- operations

\* the start routines handed to ThreadFork: context (thread.cc) or any
\* other function, which does none of context()'s cleanup
Funcs == {"new", "newother"}

\* the fork system call's check of the creator's child list
ChildTableFull(c) == childCount[c] >= MAXCHILDCOUNT

\* the fork system call's entry of the new pid in the creator's child list
RegisterChild(reg, c, n) ==
    /\ childCount' = [childCount EXCEPT ![c] = IF reg THEN @ + 1 ELSE @]
                        @@ (n :> 0)
    /\ child_pids' = [child_pids EXCEPT ![c] = IF reg THEN Append(@, n) ELSE @]
                        @@ (n :> << >>)

\* new NachOSThread by the running thread and ThreadFork(func, 0) on it;
\* with reg, as the fork system call does it: the new pid is entered in
\* the creator's child list, a full list being fatal
ForkUpTo(max, func, reg) ==
    LET c == currentThread
        n == availpid
        q == MoveThreadToReadyQueue(
                 [st |-> status @@ (n :> "JUST_CREATED"),
                  rl |-> listOfReadyThreads], n)
    IN /\ cpu = "run"
       /\ pc[c].at = "user"
       /\ lastOp' = "Fork"
       /\ IF reg /\ ChildTableFull(c)
          THEN /\ AssertFails("child_table_overflow", level)
               /\ queueLevel' = "none"
               /\ UNCHANGED << sleepingThreads, ids, tables, waitchildindex,
                               joinIndex, finished >>
          ELSE /\ availpid <= max
               /\ Fits(q)
               /\ availpid' = NextPid(n)
               /\ queueLevel' = SetLevelIntOff(level)
               /\ ppid' = ppid @@ (n :> c)
               /\ parentthread' = parentthread @@ (n :> c)
               /\ RegisterChild(reg, c, n)
               /\ childexitstatus' =
                     childexitstatus @@ (n :> [i \in Slots |-> FALSE])
               /\ childexitcode' = childexitcode @@ (n :> << >>)
               /\ waitchildindex' = waitchildindex @@ (n :> -1)
               /\ status' = q.st
               /\ listOfReadyThreads' = q.rl
               /\ pc' = pc @@ (n :> Pos(func, "user", "IntOn"))
               /\ joinIndex' = joinIndex @@ (n :> -1)
               /\ joinReturn' = << >>
               /\ UNCHANGED << currentThread, threadToBeDestroyed,
                               sleepingThreads, level, deleted, finished,
                               cpu, fault >>

Fork == \E func \in Funcs : \E reg \in BOOLEAN :
            ForkUpTo(MaxThreads, func, reg)

\* YieldCPU: if (nextThread != NULL)
YieldSwitches(nextThread) == nextThread # NULL

\* NachOSThread::YieldCPU, called by the running thread or forced on it by
\* the timer at a point where it has interrupts on
YieldCPU(this) ==
    LET nextThread == SelectNextReadyThread(listOfReadyThreads)
        q == MoveThreadToReadyQueue(
                 [st |-> status, rl |-> RemoveSelected(listOfReadyThreads)],
                 this)
    IN /\ cpu = "run"
       /\ this = currentThread => (pc[this].at = "user" \/ level = "IntOn")
       /\ this # currentThread => pc[currentThread].at = "user"
       /\ lastOp' = "YieldCPU"
       /\ UNCHANGED << sleepingThreads, ids, tables, waitchildindex,
                       joinIndex, finished >>
       /\ IF this # currentThread
          THEN /\ AssertFails("ASSERT_this_is_currentThread", "IntOff")
               /\ queueLevel' = "none"
          ELSE IF YieldSwitches(nextThread)
          THEN /\ queueLevel' = SetLevelIntOff(level)
               /\ ScheduleThread(nextThread, q.st, q.rl, threadToBeDestroyed,
                                 [pc EXCEPT ![this] = Pos("yield", @.at, level)])
          ELSE /\ joinReturn' = << >>
               /\ queueLevel' = SetLevelIntOff(level)
               /\ UNCHANGED << currentThread, threadToBeDestroyed,
                               listOfReadyThreads, level, status, pc,
                               deleted, cpu, fault >>

\* (mutant) PutThreadToSleep blocks the thread before it checks its caller
PutThreadToSleep_BlocksFirst(this, lvl) ==
    /\ cpu = "run"
    /\ pc[currentThread].at = "user"
    /\ lastOp' = "PutThreadToSleep"
    /\ UNCHANGED << sleepingThreads, ids, tables, waitchildindex,
                    joinIndex, finished >>
    /\ IF this # currentThread \/ lvl # "IntOff"
       THEN /\ Stop("aborted", "ASSERT_level_is_IntOff", currentThread,
                    [status EXCEPT ![this] = "BLOCKED"], listOfReadyThreads,
                    threadToBeDestroyed, deleted, pc, lvl)
            /\ queueLevel' = "none"
       ELSE /\ queueLevel' = lvl
            /\ SleepBody(this, status, listOfReadyThreads,
                         threadToBeDestroyed, [pc EXCEPT ![this] = Pos("sleep", "user", "IntOn")])

\* NachOSThread::PutThreadToSleep called by a synchronisation primitive,
\* lvl being the interrupt level its caller has set; the primitives and
\* their wake-ups are outside this core, so such a thread stays asleep
PutThreadToSleep(this, lvl) ==
    /\ cpu = "run"
    /\ pc[currentThread].at = "user"
    /\ lastOp' = "PutThreadToSleep"
    /\ UNCHANGED << sleepingThreads, ids, tables, waitchildindex,
                    joinIndex, finished >>
    /\ IF this # currentThread
       THEN /\ AssertFails("ASSERT_this_is_currentThread", lvl)
            /\ queueLevel' = "none"
       ELSE IF lvl # "IntOff"
       THEN /\ AssertFails("ASSERT_level_is_IntOff", lvl)
            /\ queueLevel' = "none"
       ELSE /\ queueLevel' = lvl
            /\ SleepBody(this, status, listOfReadyThreads,
                         threadToBeDestroyed, [pc EXCEPT ![this] = Pos("sleep", "user", "IntOn")])

\* FinishThread: if(childexitstatus[pid]) { if(parentthread == NULL) Halt();
FinishHaltsAsRoot(own, parent) == own /\ parent = NULL

\* FinishThread: if(childexitstatus[pid]) { ... MoveThreadToReadyQueue(parentthread)
FinishReadiesParent(own, parent) == own /\ parent # NULL

\* FinishThread: if(childCount == 0) Halt();
FinishHaltsChildless(cnt) == cnt = 0

\* NachOSThread::FinishThread
FinishThread(this) ==
    LET parent == parentthread[this]
        s0 == [st |-> status, rl |-> listOfReadyThreads]
    IN /\ cpu = "run"
       /\ pc[currentThread].at = "user"
       /\ lastOp' = "FinishThread"
       /\ UNCHANGED << sleepingThreads, ids, tables, waitchildindex,
                       joinIndex >>
       /\ IF this # currentThread
          THEN /\ AssertFails("ASSERT_this_is_currentThread", "IntOff")
               /\ queueLevel' = "none"
               /\ UNCHANGED finished
          ELSE
            /\ finished' = finished \cup {this}
            /\ \E own \in OwnSlotExited(this) :
                 IF FinishHaltsAsRoot(own, parent)
                 THEN /\ queueLevel' = "none"
                      /\ Halt(threadToBeDestroyed, status,
                              listOfReadyThreads, "IntOff")
                 ELSE \E ok \in (IF FinishReadiesParent(own, parent)
                                 THEN AccessOutcomes(parent) ELSE {TRUE}) :
                   LET q == IF FinishReadiesParent(own, parent)
                            THEN MoveThreadToReadyQueue(s0, parent) ELSE s0
                   IN /\ Fits(q)
                      /\ queueLevel' =
                            IF ok /\ ~FinishReadiesParent(own, parent)
                                  /\ FinishHaltsChildless(childCount[this])
                            THEN "none" ELSE SetLevelIntOff(level)
                      /\ IF ~ok
                         THEN AssertFails("use_after_free", "IntOff")
                         ELSE IF FinishHaltsChildless(childCount[this])
                         THEN Halt(this, q.st, q.rl, "IntOff")
                         ELSE SleepBody(this, q.st, q.rl, this,
                                        [pc EXCEPT ![this] = Pos("finish", "user", "IntOn")])

\* (mutant) the join sleeps whatever the flag says
JoinBlocks_Always(flag) == TRUE

\* JoinThreadWithChild: if(childexitstatus[index]==false)
JoinBlocks(flag) == flag = FALSE

\* NachOSThread::JoinThreadWithChild, called by the running thread for one
\* of the slots of its child list
JoinThreadWithChild(index) ==
    LET this == currentThread IN
    /\ cpu = "run"
    /\ pc[this].at = "user"
    /\ index \in 0..(childCount[this] - 1)
    /\ lastOp' = "JoinThreadWithChild"
    /\ UNCHANGED << sleepingThreads, ids, tables, finished >>
    /\ IF JoinBlocks(childexitstatus[this][index])
       THEN /\ waitchildindex' = [waitchildindex EXCEPT ![this] = index]
            /\ joinIndex' = [joinIndex EXCEPT ![this] = index]
            /\ queueLevel' = SetLevelIntOff(level)
            /\ SleepBody(this, status, listOfReadyThreads,
                         threadToBeDestroyed, [pc EXCEPT ![this] = Pos("join", "user", level)])
       ELSE /\ \E v \in ReadCode(this, index) :
                 joinReturn' = << this, v >>
            /\ queueLevel' = "none"
            /\ UNCHANGED << waitchildindex, joinIndex, currentThread,
                            threadToBeDestroyed, listOfReadyThreads, level,
                            status, pc, deleted, cpu, fault >>

\* SetChildExitCode: if(waitchildindex == i)
ExitWakesParent(wci, i) == wci = i

\* NachOSThread::SetChildExitCode(childpid, code), invoked on its parent by
\* the running thread
SetChildExitCode(childpid, code) ==
    LET this == parentthread[currentThread]
        i == SearchChildpid(child_pids[this], childCount[this], childpid)
        wakes == ExitWakesParent(waitchildindex[this], i)
        q == IF wakes
             THEN MoveThreadToReadyQueue(
                      [st |-> status, rl |-> listOfReadyThreads], this)
             ELSE [st |-> status, rl |-> listOfReadyThreads]
    IN /\ cpu = "run"
       /\ pc[currentThread].at = "user"
       /\ this # NULL
       /\ Fits(q)
       /\ lastOp' = "SetChildExitCode"
       /\ UNCHANGED << sleepingThreads, ids, childCount, child_pids,
                       joinIndex, finished, currentThread,
                       threadToBeDestroyed, deleted, pc, level >>
       /\ joinReturn' = << >>
       /\ \E ok \in AccessOutcomes(this),
             landed \in (IF i \in Slots THEN {TRUE} ELSE BOOLEAN) :
            IF ~ok \/ ~landed
            THEN /\ cpu' = "aborted"
                 /\ fault' = IF ~ok THEN "use_after_free"
                             ELSE "out_of_bounds_write"
                 /\ queueLevel' = "none"
                 /\ UNCHANGED << childexitstatus, childexitcode,
                                 waitchildindex, status, listOfReadyThreads >>
            ELSE /\ childexitcode' =
                      IF i \in Slots
                      THEN [childexitcode EXCEPT ![this] = (i :> code) @@ @]
                      ELSE childexitcode
                 /\ childexitstatus' =
                      IF i \in Slots
                      THEN [childexitstatus EXCEPT ![this][i] = TRUE]
                      ELSE childexitstatus
                 /\ waitchildindex' =
                      IF wakes THEN [waitchildindex EXCEPT ![this] = -1]
                      ELSE waitchildindex
                 /\ status' = q.st
                 /\ listOfReadyThreads' = q.rl
                 /\ queueLevel' =
                       IF wakes THEN SetLevelIntOff(level) ELSE "none"
                 /\ UNCHANGED << cpu, fault >>

\* (mutant) after the idle wait the sleeper itself is resumed
RetryAfterIdle_ResumesSleeper(q) ==
    IF q.rl = << >>
    THEN Stop("idle", "none", currentThread, q.st, q.rl,
              threadToBeDestroyed, deleted, pc, "IntOff")
    ELSE ScheduleThread(currentThread, q.st, q.rl, threadToBeDestroyed, pc)

\* the retry of PutThreadToSleep's loop after Interrupt::Idle returned
\* from a handler that may have readied threads
RetryAfterIdle(q) ==
    IF q.rl = << >>
    THEN Stop("idle", "none", currentThread, q.st, q.rl,
              threadToBeDestroyed, deleted, pc, "IntOff")
    ELSE ScheduleThread(SelectNextReadyThread(q.rl), q.st,
                        RemoveSelected(q.rl), threadToBeDestroyed, pc)

\* the ready-queue change alone, made by the running thread or by an
\* interrupt handler on its stack
ReadyOnly(q) ==
    /\ status' = q.st
    /\ listOfReadyThreads' = q.rl
    /\ joinReturn' = << >>
    /\ UNCHANGED << currentThread, threadToBeDestroyed, level, pc,
                    deleted, cpu, fault >>

\* ProcessScheduler::AddToSleepinglist(currentThread, key) followed by
\* PutThreadToSleep, as the sleep system call does
Park(key) ==
    LET this == currentThread IN
    /\ cpu = "run"
    /\ pc[this].at = "user"
    /\ Len(sleepingThreads) < MaxReady
    /\ lastOp' = "Park"
    /\ queueLevel' = "IntOff"
    /\ sleepingThreads' = Append(sleepingThreads, << this, key >>)
    /\ UNCHANGED << ids, tables, waitchildindex, joinIndex, finished >>
    /\ SleepBody(this, status, listOfReadyThreads, threadToBeDestroyed,
                 [pc EXCEPT ![this] = Pos("park", "user", level)])

RECURSIVE MoveAllToReadyQueue(_, _)
MoveAllToReadyQueue(s, ws) ==
    IF ws = << >> THEN s
    ELSE MoveAllToReadyQueue(MoveThreadToReadyQueue(s, Head(ws)[1]), Tail(ws))

\* ProcessScheduler::WakeSleepingThreads(key), run by the timer handler
\* with interrupts off: under a running thread, or out of Interrupt::Idle
\* ("Idle"), whose return makes PutThreadToSleep retry its dequeue
WakeSleepingThreads(key) ==
    LET under(e) == e[2] = key
        other(e) == e[2] # key
        q == MoveAllToReadyQueue([st |-> status, rl |-> listOfReadyThreads],
                                 SelectSeq(sleepingThreads, under))
    IN /\ cpu \in {"run", "idle"}
       /\ cpu = "run" => level = "IntOn"
       /\ Fits(q)
       /\ lastOp' = IF cpu = "idle" THEN "Idle" ELSE "WakeSleepingThreads"
       /\ queueLevel' = "IntOff"
       /\ sleepingThreads' = SelectSeq(sleepingThreads, other)
       /\ UNCHANGED << ids, tables, waitchildindex, joinIndex, finished >>
       /\ IF cpu = "idle" THEN RetryAfterIdle(q) ELSE ReadyOnly(q)

\* context(arg), the start routine of a forked process, up to
\* machine->Run(): the deferred delete that ScheduleThread does for a
\* thread that was switched out
context ==
    LET this == currentThread
        tbd == threadToBeDestroyed
    IN /\ cpu = "run"
       /\ pc[this].at = "start"
       /\ lastOp' = "context"
       /\ queueLevel' = "none"
       /\ joinReturn' = << >>
       /\ UNCHANGED << sleepingThreads, ids, tables, waitchildindex,
                       joinIndex, finished, currentThread, status,
                       listOfReadyThreads, level >>
       /\ IF PendingDestruction(tbd)
          THEN \E once \in AccessOutcomes(tbd) :
                 IF ~DestructorAssertHolds(tbd, this) \/ ~once
                 THEN /\ cpu' = "aborted"
                      /\ fault' = IF ~DestructorAssertHolds(tbd, this)
                                  THEN "ASSERT_this_not_currentThread"
                                  ELSE "double_delete"
                      /\ UNCHANGED << threadToBeDestroyed, deleted, pc >>
                 ELSE /\ threadToBeDestroyed' = NULL
                      /\ deleted' = deleted \cup {tbd}
                      /\ pc' = [pc EXCEPT ![this] = User]
                      /\ UNCHANGED << cpu, fault >>
          ELSE /\ pc' = [pc EXCEPT ![this] = User]
               /\ UNCHANGED << threadToBeDestroyed, deleted, cpu, fault >>

\* JoinThreadWithChild after its sleep: return childexitcode[index], read
\* once SetLevel(oldLevel) has been passed
JoinReturns ==
    LET this == currentThread IN
    /\ cpu = "run"
    /\ pc[this].at = "joinret"
    /\ lastOp' = "JoinReturns"
    /\ queueLevel' = "none"
    /\ \E v \in ReadCode(this, joinIndex[this]) : joinReturn' = << this, v >>
    /\ pc' = [pc EXCEPT ![this] = User]
    /\ UNCHANGED << sleepingThreads, ids, tables, waitchildindex, joinIndex,
                    finished, currentThread, threadToBeDestroyed,
                    listOfReadyThreads, level, status, deleted, cpu, fault >>

\* ------------------------------------------------------ specification
Next ==
    \/ Fork
    \/ context
    \/ JoinReturns
    \/ YieldCPU(currentThread)
    \/ PutThreadToSleep(currentThread, "IntOff")
    \/ FinishThread(currentThread)
    \/ \E index \in Slots : JoinThreadWithChild(index)
    \/ \E childpid \in Threads : \E code \in Codes :
          SetChildExitCode(childpid, code)
    \/ \E key \in Keys : Park(key)
    \/ \E key \in Keys : WakeSleepingThreads(key)

Spec == Init /\ [][Next]_vars

\* the threads' identities: one more thread than Spec constructs, under
\* the operations that only move threads between the queues
MaxIds == MaxThreads + 1

NextIds ==
    \/ \E func \in Funcs : \E reg \in BOOLEAN : ForkUpTo(MaxIds, func, reg)
    \/ context
    \/ YieldCPU(currentThread)
    \/ \E key \in Keys : Park(key)
    \/ \E key \in Keys : WakeSleepingThreads(key)

SpecIds == Init /\ [][NextIds]_vars

\* ----------------------------------------- calls that break a contract

Levels == {"IntOn", "IntOff"}

\* PutThreadToSleep on a thread that is not running, or with interrupts on
SleepMisuse ==
    \E this \in Threads : \E lvl \in Levels :
        /\ this # currentThread \/ lvl # "IntOff"
        /\ PutThreadToSleep(this, lvl)

\* YieldCPU on a thread that is not running
YieldMisuse ==
    \E this \in Threads : this # currentThread /\ YieldCPU(this)

\* FinishThread on a thread that is not running
FinishMisuse ==
    \E this \in Threads : this # currentThread /\ FinishThread(this)

\* NachOSThread::~NachOSThread run on "this" by the running thread; on an
\* object that was deleted before, the destructor reads and frees freed
\* memory
Destroy(this) ==
    /\ cpu = "run"
    /\ pc[currentThread].at = "user"
    /\ lastOp' = "Destroy"
    /\ queueLevel' = "none"
    /\ UNCHANGED << sleepingThreads, ids, tables, waitchildindex,
                    joinIndex, finished >>
    /\ IF ~DestructorAssertHolds(this, currentThread)
       THEN AssertFails("ASSERT_this_not_currentThread", level)
       ELSE \E once \in AccessOutcomes(this) :
              IF ~once
              THEN AssertFails("double_delete", level)
              ELSE Stop("run", "none", currentThread, status,
                        listOfReadyThreads, threadToBeDestroyed,
                        deleted \cup {this}, pc, level)

\* delete currentThread
DestroyMisuse == Destroy(currentThread)

NextMisuse ==
    \/ Next
    \/ SleepMisuse
    \/ YieldMisuse
    \/ FinishMisuse
    \/ DestroyMisuse

SpecMisuse == Init /\ [][NextMisuse]_vars

\* ============================================================ claims

Running == {t \in Threads : status[t] = "RUNNING"}

\* C1 (as stated): in every reachable state exactly one thread has status
\* Running, and that thread is the current thread.
C1_ExactlyOneRunning ==
    Running = {currentThread}

\* C1 (amended): in every reachable state at most one thread has status
\* Running and only the current thread can have it; while the CPU idles in
\* PutThreadToSleep with an empty ready queue no thread is Running.
C1_AtMostOneRunning ==
    /\ Running \subseteq {currentThread}
    /\ cpu = "idle" => Running = {}

\* a switch has happened: a forked thread runs and its creator waits
C1_Witness ==
    /\ cpu = "run"
    /\ lastOp \in {"YieldCPU", "PutThreadToSleep", "JoinThreadWithChild"}
    /\ currentThread # 1
    /\ Running = {currentThread}
    /\ status[1] \in {"READY", "BLOCKED"}

\* C2: in every reachable state the ready queue does not contain the
\* currently running thread.
C2_RunningNotOnReadyQueue ==
    cpu = "run" => ~InSeq(listOfReadyThreads, currentThread)

\* C3: a parent blocked in JoinThreadWithChild becomes Ready when the
\* awaited child's exit is recorded and then goes on to run and to return
\* the recorded code.  On finite runs: the simulator never halts while a
\* parent readied out of its join still waits on the ready queue, its
\* JoinThreadWithChild not yet returned.
C3_ReadiedParentReturnsFromJoin ==
    \A p \in Threads :
        ( /\ pc[p].at = "join"
          /\ status[p] = "READY"
          /\ childexitstatus[p][joinIndex[p]] ) => cpu # "halted"

\* C4: JoinThreadWithChild on a slot whose exit is already recorded returns
\* the stored code at once, without blocking or switching, and leaves the
\* slot's flag and code as they were (so a repeated join returns the same).
C4_JoinOnExitedSlot ==
    [][\A i \in Slots :
         (JoinThreadWithChild(i) /\ childexitstatus[currentThread][i]) =>
            /\ i \in DOMAIN childexitcode[currentThread]
            /\ joinReturn' = << currentThread, childexitcode[currentThread][i] >>
            /\ currentThread' = currentThread
            /\ status' = status
            /\ listOfReadyThreads' = listOfReadyThreads
            /\ cpu' = "run"
            /\ childexitstatus' = childexitstatus
            /\ childexitcode' = childexitcode]_vars

\* a join has just returned a recorded code to the thread that called it,
\* and no thread is blocked
C4_Witness ==
    /\ lastOp = "JoinThreadWithChild"
    /\ cpu = "run"
    /\ joinReturn # << >>
    /\ joinReturn[1] = currentThread
    /\ childexitstatus[currentThread][0]
    /\ joinReturn[2] = childexitcode[currentThread][0]
    /\ \A t \in Threads : status[t] # "BLOCKED"

\* C5: SetChildExitCode(childPid, code) puts the parent on the ready queue
\* only if the parent is blocked joining exactly the slot holding childPid;
\* for a pid that is in no slot of the parent the parent is not enqueued
\* and its join index is unchanged.
C5_WakesOnlyTheJoiningParent ==
    [][\A k \in Threads, code \in Codes :
         (SetChildExitCode(k, code) /\ cpu' = "run") =>
            LET p == parentthread[currentThread]
                i == SearchChildpid(child_pids[p], childCount[p], k)
            IN /\ listOfReadyThreads' # listOfReadyThreads =>
                    (i >= 0 /\ status[p] = "BLOCKED" /\ waitchildindex[p] = i)
               /\ i = -1 => /\ listOfReadyThreads' = listOfReadyThreads
                            /\ waitchildindex' = waitchildindex]_vars

\* C6: YieldCPU with a non-empty ready queue makes the head of the queue
\* Running and appends the yielding thread at the tail with status Ready;
\* with an empty queue it changes nothing and the same thread keeps running.
C6_YieldRotatesFifo ==
    [][(lastOp' = "YieldCPU" /\ cpu' = "run") =>
         IF listOfReadyThreads # << >>
         THEN /\ currentThread' = Head(listOfReadyThreads)
              /\ status'[currentThread'] = "RUNNING"
              /\ listOfReadyThreads' =
                    Append(Tail(listOfReadyThreads), currentThread)
              /\ status'[currentThread] = "READY"
         ELSE /\ currentThread' = currentThread
              /\ status' = status
              /\ listOfReadyThreads' = << >>]_vars

\* C7: FinishThread halts the system if the finishing thread has no
\* children or is the root thread with no parent; in every other case it
\* does not halt.
C7_FinishHaltsIffChildlessOrRoot ==
    [][(lastOp' = "FinishThread" /\ fault' = "none") =>
         (cpu' = "halted" <=>
             (childCount[currentThread] = 0 \/ parentthread[currentThread] = NULL))]_vars

\* C8: there is never more than one finished thread awaiting destruction,
\* and whenever FinishThread runs the threadToBeDestroyed slot is empty, so
\* no finished thread is overwritten in the slot and left undestroyed.
C8_OnePendingDestruction ==
    /\ [](Cardinality(finished \ deleted) <= 1)
    /\ [][lastOp' = "FinishThread" => threadToBeDestroyed = NULL]_vars

\* C9: whenever threadToBeDestroyed is deleted it is not the current
\* thread, so the destructor's ASSERT(this != currentThread) never fails.
C9_DestructorAssertNeverFails ==
    fault # "ASSERT_this_not_currentThread"

\* C10: a thread that has called FinishThread is never placed on the ready
\* queue and never becomes Running again.
C10_FinishedNeverResumes ==
    [][\A t \in finished :
         /\ status'[t] # "RUNNING"
         /\ Count(listOfReadyThreads', t) <= Count(listOfReadyThreads, t)]_vars

\* the number of entries of the sleep/wait registry that hold thread t
Filed(t) == Count([i \in 1..Len(sleepingThreads) |-> sleepingThreads[i][1]], t)

\* C11: every thread whose status is Blocked is filed in exactly one
\* bucket of the sleep/wait registry and is not on the ready queue.
C11_BlockedIsFiledOnce ==
    \A t \in Threads \ deleted :
        status[t] = "BLOCKED" =>
            Filed(t) = 1 /\ ~InSeq(listOfReadyThreads, t)

\* C12: while the CPU idles in PutThreadToSleep the ready queue is empty
\* and no thread is Running; the idle state is left only by a wake-up that
\* readies parked threads, and the thread that runs next is the first of
\* the threads that wake-up put on the ready queue.
C12_IdleUntilExternalWake ==
    /\ [](cpu = "idle" => /\ Running = {}
                          /\ listOfReadyThreads = << >>
                          /\ status[currentThread] = "BLOCKED")
    /\ [][cpu = "idle" =>
            \/ /\ cpu' = "idle"
               /\ currentThread' = currentThread
               /\ status' = status
            \/ /\ lastOp' = "Idle"
               /\ \E key \in Keys :
                    LET under(e) == e[2] = key
                        woken == SelectSeq(sleepingThreads, under)
                    IN /\ woken # << >>
                       /\ currentThread' = woken[1][1]
                       /\ Running' = {currentThread'}
                       /\ listOfReadyThreads' =
                             [i \in 1..(Len(woken) - 1) |-> woken[i + 1][1]]]_vars

\* a parked thread runs again after the idle wait, having been woken
C12_Witness ==
    /\ lastOp = "Idle"
    /\ cpu = "run"
    /\ pc[currentThread].at = "user"
    /\ status[currentThread] = "RUNNING"
    /\ sleepingThreads = << >>

\* sequence a is an initial part of sequence b
IsPrefix(a, b) == Len(a) <= Len(b) /\ SubSeq(b, 1, Len(a)) = a

\* C13: threads are dispatched in the order in which they were placed on
\* the ready queue: every step only appends at the tail of the ready list
\* and removes at its head, and the thread removed is the one it runs;
\* out of the idle wait the first thread woken runs first.
C13_StrictFifoDispatch ==
    [][ /\ \/ /\ IsPrefix(listOfReadyThreads, listOfReadyThreads')
               /\ currentThread' = currentThread
            \/ IsPrefix(listOfReadyThreads,
                        << currentThread' >> \o listOfReadyThreads')
        /\ (lastOp' = "Idle" /\ cpu' # "idle") =>
               currentThread' = sleepingThreads[1][1] ]_vars

\* the forked thread, enqueued before the yielder, runs before it
C13_Witness ==
    /\ lastOp = "YieldCPU"
    /\ cpu = "run"
    /\ currentThread # 1
    /\ listOfReadyThreads = << 1 >>
    /\ status[1] = "READY"

\* C14: every call on the ready queue made by ThreadFork, YieldCPU,
\* PutThreadToSleep, FinishThread, JoinThreadWithChild and SetChildExitCode
\* is made with interrupts off.
C14_QueueUpdatesWithInterruptsOff ==
    [][ /\ queueLevel' # "IntOn"
        /\ ( /\ lastOp' \in {"Fork", "YieldCPU", "PutThreadToSleep",
                              "FinishThread", "JoinThreadWithChild",
                              "SetChildExitCode"}
             /\ listOfReadyThreads' # listOfReadyThreads )
              => queueLevel' = "IntOff" ]_vars

\* SetChildExitCode has put a joining parent on the ready queue inside its
\* bracket and restored the caller's level
C14_Witness ==
    /\ lastOp = "SetChildExitCode"
    /\ queueLevel = "IntOff"
    /\ level = "IntOn"
    /\ cpu = "run"
    /\ \E p \in Threads : /\ pc[p].at = "join"
                          /\ status[p] = "READY"
                          /\ InSeq(listOfReadyThreads, p)

\* C15: PutThreadToSleep on a thread that is not running or with
\* interrupts on, YieldCPU or FinishThread on a thread that is not running,
\* and the destruction of the running thread stop the simulator at the
\* assertion with every status and the ready queue as they were; nothing
\* runs after an abort.
C15_AssertionsAreFatal ==
    /\ [][ (SleepMisuse \/ YieldMisuse \/ FinishMisuse \/ DestroyMisuse) =>
             /\ cpu' = "aborted"
             /\ fault' \in {"ASSERT_this_is_currentThread",
                             "ASSERT_level_is_IntOff",
                             "ASSERT_this_not_currentThread"}
             /\ status' = status
             /\ listOfReadyThreads' = listOfReadyThreads
             /\ sleepingThreads' = sleepingThreads
             /\ currentThread' = currentThread
             /\ threadToBeDestroyed' = threadToBeDestroyed
             /\ deleted' = deleted
             /\ finished' = finished ]_vars
    /\ [][cpu # "aborted"]_vars

\* PutThreadToSleep called with interrupts on has aborted the simulator
\* while another thread waits on the ready queue
C15_Witness ==
    /\ cpu = "aborted"
    /\ fault = "ASSERT_level_is_IntOff"
    /\ lastOp = "PutThreadToSleep"
    /\ status[currentThread] = "RUNNING"
    /\ listOfReadyThreads # << >>

\* C16: pids are handed out 1, 2, 3, ... in order of construction, never
\* twice; the first thread has ppid 0 and no parent, every later thread has
\* as ppid and parent the thread that was running when it was constructed.
C16_PidsMonotonicFromOne ==
    /\ [](/\ DOMAIN ppid = 1..(availpid - 1)
          /\ ppid[1] = 0 /\ parentthread[1] = NULL
          /\ \A t \in Threads \ {1} :
                ppid[t] \in 1..(t - 1) /\ parentthread[t] = ppid[t])
    /\ [][(lastOp' = "Fork" /\ cpu' = "run") =>
            /\ availpid \notin DOMAIN ppid
            /\ availpid' = availpid + 1
            /\ DOMAIN ppid' = DOMAIN ppid \cup {availpid}
            /\ ppid'[availpid] = currentThread
            /\ parentthread'[availpid] = currentThread
            /\ \A t \in DOMAIN ppid :
                  ppid'[t] = ppid[t] /\ parentthread'[t] = parentthread[t] ]_vars

\* a thread forked by a thread other than the first exists
C16_Witness ==
    /\ lastOp = "Fork"
    /\ \E t \in Threads : /\ t = availpid - 1
                          /\ ppid[t] > 1
                          /\ ppid[t] = currentThread
                          /\ parentthread[t] = ppid[t]

\* C17: a thread that yielded while another thread was ready runs again
\* once the threads in between have yielded, slept or finished.  On finite
\* runs: the simulator never halts while a thread suspended in YieldCPU
\* still waits on the ready queue.
C17_YielderRunsAgain ==
    cpu = "halted" =>
        \A t \in Threads :
            ~(pc[t].at = "yield" /\ status[t] = "READY"
                             /\ InSeq(listOfReadyThreads, t))

\* C18: no thread is on the ready queue more than once.
C18_NoDuplicateOnReadyQueue ==
    \A t \in Threads : Count(listOfReadyThreads, t) <= 1

\* C19: a deleted thread object is never used again: SetChildExitCode is
\* never applied to a deleted parentthread and FinishThread never takes
\* the branch that enqueues one.
C19_DeletedNeverReferenced ==
    [][ /\ lastOp' = "SetChildExitCode" =>
              parentthread[currentThread] \notin deleted
        /\ (lastOp' = "FinishThread" /\ finished' # finished
                                      /\ parentthread[currentThread] \in deleted)
              => \A own \in OwnSlotExited(currentThread) :
                    ~FinishReadiesParent(own, parentthread[currentThread]) ]_vars

\* C20: every index into childexitstatus / childexitcode is in
\* 0..MAXCHILDCOUNT-1: the slot SetChildExitCode writes and the slot
\* FinishThread reads (its own pid).
C20_TableIndexInRange ==
    [][ /\ lastOp' = "SetChildExitCode" =>
              \A k \in Threads : \A code \in Codes :
                 SetChildExitCode(k, code) =>
                    SearchChildpid(child_pids[parentthread[currentThread]],
                                   childCount[parentthread[currentThread]],
                                   k) \in Slots
        /\ (lastOp' = "FinishThread" /\ finished' # finished)
              => currentThread \in Slots ]_vars

====
